---------------------------- MODULE Spec2Model ----------------------------
(***************************************************************************)
(* Rendering of pandoc inline elements to markdown text, as implemented    *)
(* in quartodoc/pandoc/inlines.py.                                         *)
(*                                                                         *)
(* Python values are tagged records: the tag k is the runtime type.  Text  *)
(* is a TLA+ string, built with \o exactly as the f-strings build it.      *)
(***************************************************************************)
EXTENDS Integers, Sequences, FiniteSets, TLC

VARIABLES
    content,    \* the inline content (object tree) handed to the module
    returned,   \* last completed top-level call: NoCall or [fn, r]
    stack,      \* per caller: the call stack of a render in progress
    out,        \* per caller: NoResult, or the result of its finished render
    calls       \* per caller: number of calls (frames) made by its render

vars == <<content, returned, stack, out, calls>>

---------------------------------------------------------------------------
(* Bounds of the model.                                                    *)

\* longest sequence of inline content drawn as an input
MaxLen == 3

\* number of callers rendering the same tree at the same time
NumCallers == 2

---------------------------------------------------------------------------
(* Python values.                                                          *)

None == [k |-> "NoneType"]
S(s) == [k |-> "str", s |-> s]
L(xs) == [k |-> "list", xs |-> xs]
\* a mapping with n entries: {} or {"a": 1}
PyDict(n) == [k |-> "dict", n |-> n]
PyInt(n) == [k |-> "int", n |-> n]

\* quartodoc.pandoc.components.Attr: identifier and classes
Attr(identifier, classes) ==
    [k |-> "Attr", identifier |-> identifier, classes |-> classes]

Inlines(elements) == [k |-> "Inlines", elements |-> elements]
Str(c) == [k |-> "Str", content |-> c]
Span(c, attr) == [k |-> "Span", content |-> c, attr |-> attr]
Link(c, target, title, attr) ==
    [k |-> "Link", content |-> c, target |-> target, title |-> title,
     attr |-> attr]
Code(text, attr) == [k |-> "Code", text |-> text, attr |-> attr]
CodeTag(text, attr) == [k |-> "CodeTag", text |-> text, attr |-> attr]
Strong(c) == [k |-> "Strong", content |-> c]
Emph(c) == [k |-> "Emph", content |-> c]

\* the subclasses of Inline
InlineKinds ==
    {"Inlines", "Str", "Span", "Link", "Code", "CodeTag", "Strong", "Emph"}

\* isinstance(v, Inline), isinstance(v, str), isinstance(v, abc.Sequence)
IsInline(v) == v.k \in InlineKinds
IsStr(v) == v.k = "str"
IsList(v) == v.k = "list"

SEP == " "

\* the backquote character that delimits inline code (a TLA+ string cannot
\* hold it, so it is written as this token)
BQ == "<bq>"

\* the outcome of a call: a returned string, or the raised TypeError
Ret(s) == [k |-> "return", s |-> s]
RaiseTypeError(v) == [k |-> "TypeError", type |-> v.k]

---------------------------------------------------------------------------
(* Python built-ins the module relies on.                                  *)

\* bool(v): None, "", [], {}, 0 are falsy; a dataclass instance defines
\* neither __bool__ nor __len__ and is always truthy
PyBool(v) ==
    CASE v.k = "NoneType" -> FALSE
      [] v.k = "str" -> v.s # ""
      [] v.k = "list" -> v.xs # <<>>
      [] v.k = "dict" -> v.n # 0
      [] v.k = "int" -> v.n # 0
      [] OTHER -> TRUE

\* sep.join(strs)
RECURSIVE StrJoin(_, _)
StrJoin(sep, strs) ==
    IF strs = <<>> THEN ""
    ELSE IF Len(strs) = 1 THEN strs[1]
    ELSE strs[1] \o sep \o StrJoin(sep, Tail(strs))

\* a or b
PyOr(a, b) == IF PyBool(a) THEN a ELSE b

\* Attr.__str__: the bare attribute syntax, "#id .class"
Attr_str(a) ==
    StrJoin(" ",
        (IF PyBool(a.identifier) THEN <<"#" \o a.identifier.s>> ELSE <<>>)
        \o (IF PyBool(a.classes)
            THEN <<StrJoin(" ", [i \in 1..Len(a.classes.xs) |->
                                    "." \o a.classes.xs[i].s])>>
            ELSE <<>>))

\* Attr.as_html(): the HTML attribute string, id="x" class="y z"
Attr_as_html(a) ==
    StrJoin(" ",
        (IF PyBool(a.identifier)
         THEN <<"id=\"" \o a.identifier.s \o "\"">> ELSE <<>>)
        \o (IF PyBool(a.classes)
            THEN <<"class=\"" \o StrJoin(" ", [i \in 1..Len(a.classes.xs) |->
                                    a.classes.xs[i].s]) \o "\"">>
            ELSE <<>>))

RECURSIVE PyStr(_), PyRepr(_), join_inline_content(_), inlinecontent_to_str(_)

\* repr(v): a string in quotes, a list in brackets, a dataclass instance as
\* ClassName(field=repr, ...)
PyRepr(v) ==
    CASE v.k = "NoneType" -> "None"
      [] v.k = "str" -> "'" \o v.s \o "'"
      [] v.k = "int" -> ToString(v.n)
      [] v.k = "dict" -> IF v.n = 0 THEN "{}" ELSE "{'a': 1}"
      [] v.k = "list" ->
            "[" \o StrJoin(", ", [i \in 1..Len(v.xs) |-> PyRepr(v.xs[i])])
                \o "]"
      [] v.k = "Attr" ->
            "Attr(identifier=" \o PyRepr(v.identifier) \o ", classes="
                \o PyRepr(v.classes) \o ")"
      [] v.k = "Inlines" -> "Inlines(elements=" \o PyRepr(v.elements) \o ")"
      [] v.k \in {"Str", "Strong", "Emph"} ->
            v.k \o "(content=" \o PyRepr(v.content) \o ")"
      [] v.k = "Span" ->
            "Span(content=" \o PyRepr(v.content) \o ", attr="
                \o PyRepr(v.attr) \o ")"
      [] v.k = "Link" ->
            "Link(content=" \o PyRepr(v.content) \o ", target="
                \o PyRepr(v.target) \o ", title=" \o PyRepr(v.title)
                \o ", attr=" \o PyRepr(v.attr) \o ")"
      [] v.k \in {"Code", "CodeTag"} ->
            v.k \o "(text=" \o PyRepr(v.text) \o ", attr="
                \o PyRepr(v.attr) \o ")"

---------------------------------------------------------------------------
(* The render-to-text method of each class.                                *)

\* faulty variant of Inlines.__str__: joins every element, without the
\* filter "if c" of join_inline_content
Inlines_str_unfiltered(n) ==
    IF ~PyBool(n.elements) THEN ""
    ELSE StrJoin(SEP, [i \in 1..Len(n.elements.xs) |->
                          PyStr(n.elements.xs[i])])

\* Inlines.__str__
Inlines_str(n) ==
    IF ~PyBool(n.elements) THEN ""
    ELSE join_inline_content(n.elements)

\* Str.__str__
Str_str(n) == PyStr(PyOr(n.content, S("")))

\* faulty variant of Span.__str__: drops the braces when attr is unset, as
\* Link and Code do
Span_text_optional_braces(n, c) ==
    LET attr == IF PyBool(n.attr) THEN "{" \o PyStr(n.attr) \o "}" ELSE ""
    IN  "[" \o c \o "]" \o attr

\* Span.__str__, once inlinecontent_to_str(self.content) has returned c
Span_text(n, c) ==
    LET attr == PyOr(n.attr, S(""))
    IN  "[" \o c \o "]{" \o PyStr(attr) \o "}"

\* Span.__str__
Span_str(n) == Span_text(n, inlinecontent_to_str(n.content).s)

\* Link.__str__, once inlinecontent_to_str(self.content) has returned c
Link_text(n, c) ==
    LET title == IF PyBool(n.title) THEN " \"" \o PyStr(n.title) \o "\""
                 ELSE ""
        attr == IF PyBool(n.attr) THEN "{" \o PyStr(n.attr) \o "}" ELSE ""
    IN  "[" \o c \o "](" \o PyStr(n.target) \o title \o ")" \o attr

\* Link.__str__
Link_str(n) == Link_text(n, inlinecontent_to_str(n.content).s)

\* Code.__str__
Code_str(n) ==
    LET c == PyOr(n.text, S(""))
        attr == IF PyBool(n.attr) THEN "{" \o PyStr(n.attr) \o "}" ELSE ""
    IN  BQ \o PyStr(c) \o BQ \o attr

\* faulty variant of CodeTag.__str__: formats attr in its plain form, as
\* Code does
CodeTag_str_plain_attr(n) ==
    LET c == PyOr(n.text, S(""))
        attr == IF PyBool(n.attr) THEN " " \o PyStr(n.attr) ELSE ""
    IN  "<code" \o attr \o ">" \o PyStr(c) \o "</code>"

\* CodeTag.__str__
CodeTag_str(n) ==
    LET c == PyOr(n.text, S(""))
        attr == IF PyBool(n.attr) THEN " " \o Attr_as_html(n.attr) ELSE ""
    IN  "<code" \o attr \o ">" \o PyStr(c) \o "</code>"

\* Strong.__str__, once inlinecontent_to_str(self.content) has returned c
Strong_text(n, c) == "**" \o c \o "**"

\* Strong.__str__
Strong_str(n) == Strong_text(n, inlinecontent_to_str(n.content).s)

\* Emph.__str__, once inlinecontent_to_str(self.content) has returned c
Emph_text(n, c) == "*" \o c \o "*"

\* Emph.__str__
Emph_str(n) == Emph_text(n, inlinecontent_to_str(n.content).s)

\* str(v) and f"{v}": the class's __str__, the string itself, the literal
\* None, and for a list its repr
PyStr(v) ==
    CASE v.k = "NoneType" -> "None"
      [] v.k = "str" -> v.s
      [] v.k \in {"int", "dict", "list"} -> PyRepr(v)
      [] v.k = "Attr" -> Attr_str(v)
      [] v.k = "Inlines" -> Inlines_str(v)
      [] v.k = "Str" -> Str_str(v)
      [] v.k = "Span" -> Span_str(v)
      [] v.k = "Link" -> Link_str(v)
      [] v.k = "Code" -> Code_str(v)
      [] v.k = "CodeTag" -> CodeTag_str(v)
      [] v.k = "Strong" -> Strong_str(v)
      [] v.k = "Emph" -> Emph_str(v)

---------------------------------------------------------------------------
(* Helper functions.                                                       *)

\* SEP.join(str(c) for c in content if c)
join_inline_content(c) ==
    LET kept == SelectSeq(c.xs, PyBool)
    IN  StrJoin(SEP, [i \in 1..Len(kept) |-> PyStr(kept[i])])

\* faulty variant of inlinecontent_to_str: tests "content is None" in place
\* of "not content"
inlinecontent_to_str_none_only(c) ==
    IF c = None THEN Ret("")
    ELSE IF IsStr(c) \/ IsInline(c) THEN Ret(PyStr(c))
    ELSE IF IsList(c) THEN Ret(join_inline_content(c))
    ELSE RaiseTypeError(c)

\* if not content / isinstance(content, (str, Inline)) / isinstance(content,
\* abc.Sequence) / raise TypeError
inlinecontent_to_str(c) ==
    IF ~PyBool(c) THEN Ret("")
    ELSE IF IsStr(c) \/ IsInline(c) THEN Ret(PyStr(c))
    ELSE IF IsList(c) THEN Ret(join_inline_content(c))
    ELSE RaiseTypeError(c)

---------------------------------------------------------------------------
(* The inline content the module is handed.                                *)

RECURSIVE SeqsUpTo(_, _)
\* the sequences of at most n members of set E
SeqsUpTo(E, n) ==
    IF n = 0 THEN {<<>>}
    ELSE LET shorter == SeqsUpTo(E, n - 1)
         IN  shorter \cup {Append(xs, e) : xs \in shorter, e \in E}

\* Optional[str] fields
OptText == {None, S(""), S("a")}

\* Optional[Attr] fields: unset, Attr() and Attr("i", ["c"])
OptAttr == {None, Attr(None, None), Attr(S("i"), L(<<S("c")>>))}

\* members of a Sequence[InlineContent]: absent, strings, nodes that render
\* to nothing, a node that renders to text, a nested sequence
Elements ==
    {None, S(""), S("a"), S("b"), Str(None), Inlines(L(<<>>)), Emph(S("b")),
     L(<<S("a"), S("b")>>)}

ElementLists == {L(xs) : xs \in SeqsUpTo(Elements, MaxLen)}

\* Optional[InlineContent] fields of Span, Link, Strong and Emph
Contents ==
    {None, S(""), S("a"), Emph(S("b")), L(<<>>),
     L(<<S("a"), Emph(S("b"))>>), L(<<S("a"), S(""), Str(S("b"))>>)}

Nodes ==
    {Inlines(e) : e \in {None} \cup ElementLists}
    \cup {Str(c) : c \in OptText}
    \cup {Span(c, a) : c \in Contents, a \in OptAttr}
    \cup {Link(c, t, ti, a) : c \in Contents, t \in {None, S("u")},
                              ti \in {None, S(""), S("T")}, a \in OptAttr}
    \cup {Code(t, a) : t \in OptText, a \in OptAttr}
    \cup {CodeTag(t, a) : t \in OptText, a \in OptAttr}
    \cup {Strong(c) : c \in Contents}
    \cup {Emph(c) : c \in Contents}

\* values outside Optional[InlineContent]: mappings and numbers
Others == {PyDict(0), PyDict(1), PyInt(0), PyInt(1)}

Inputs == {None, S(""), S("a")} \cup ElementLists \cup Nodes \cup Others

---------------------------------------------------------------------------
(* Calls of the module's entry points, each run to completion.             *)

NoCall == [fn |-> "none"]
NoResult == [k |-> "none"]
Callers == 1..NumCallers

Init ==
    /\ content \in Inputs
    /\ returned = NoCall
    /\ stack = [c \in Callers |-> <<>>]
    /\ out = [c \in Callers |-> NoResult]
    /\ calls = [c \in Callers |-> 0]

\* str(node)
CallStr ==
    /\ IsInline(content)
    /\ returned' = [fn |-> "str", r |-> Ret(PyStr(content))]
    /\ UNCHANGED <<content, stack, out, calls>>

\* join_inline_content(sequence)
CallJoinInlineContent ==
    /\ IsList(content)
    /\ returned' = [fn |-> "join_inline_content",
                    r |-> Ret(join_inline_content(content))]
    /\ UNCHANGED <<content, stack, out, calls>>

\* inlinecontent_to_str(anything)
CallInlineContentToStr ==
    /\ returned' = [fn |-> "inlinecontent_to_str",
                    r |-> inlinecontent_to_str(content)]
    /\ UNCHANGED <<content, stack, out, calls>>

Next == CallStr \/ CallJoinInlineContent \/ CallInlineContentToStr

Spec == Init /\ [][Next]_vars

---------------------------------------------------------------------------
(* Renders step by step: each caller runs its own call stack over the      *)
(* shared tree, one frame per call of a function of the module.            *)

\* the trees rendered step by step: every shape of content and every class
RenderInputs ==
    {None, S("a"), PyDict(1), PyInt(0),
     Str(S("a")), Inlines(None), Code(S("a"), None),
     CodeTag(None, Attr(S("i"), None)),
     L(<<S("a"), None, Str(None)>>),
     L(<<S("a"), L(<<S("a")>>)>>),
     Inlines(L(<<S("a"), Emph(S("b"))>>)),
     Link(Strong(S("a")), S("u"), S("T"), None),
     Strong(Span(S("b"), None))}

RenderInit ==
    /\ content \in RenderInputs
    /\ returned = NoCall
    /\ stack = [c \in Callers |-> <<>>]
    /\ out = [c \in Callers |-> NoResult]
    /\ calls = [c \in Callers |-> 0]

\* a frame: the function called, its argument, how many of its calls have
\* returned and what they returned
Frame(fn, v) == [fn |-> fn, v |-> v, i |-> 0, acc |-> <<>>]

Top(c) == stack[c][Len(stack[c])]

\* the functions a caller may hand the value to
EntryPoints(v) ==
    {"inlinecontent_to_str"}
    \cup (IF IsInline(v) THEN {"str"} ELSE {})
    \cup (IF IsList(v) THEN {"join_inline_content"} ELSE {})

\* the members of a sequence that pass the filter "if c"
Kept(v) == SelectSeq(v.xs, PyBool)

\* the call of the module frame f makes next, as a set of at most one frame
Callee(f) ==
    CASE f.fn = "str" ->
            IF f.i # 0 THEN {}
            ELSE IF f.v.k = "Inlines" /\ PyBool(f.v.elements)
                 THEN {Frame("join_inline_content", f.v.elements)}
            ELSE IF f.v.k \in {"Span", "Link", "Strong", "Emph"}
                 THEN {Frame("inlinecontent_to_str", f.v.content)}
            ELSE {}
      [] f.fn = "inlinecontent_to_str" ->
            IF f.i # 0 \/ ~PyBool(f.v) THEN {}
            ELSE IF IsInline(f.v) THEN {Frame("str", f.v)}
            ELSE IF IsStr(f.v) THEN {}
            ELSE IF IsList(f.v) THEN {Frame("join_inline_content", f.v)}
            ELSE {}
      [] f.fn = "join_inline_content" ->
            IF f.i < Len(Kept(f.v)) /\ IsInline(Kept(f.v)[f.i + 1])
            THEN {Frame("str", Kept(f.v)[f.i + 1])}
            ELSE {}

\* frame f is at str(c) of a member that is no Inline: a built-in conversion
AtBuiltinStr(f) ==
    /\ f.fn = "join_inline_content"
    /\ f.i < Len(Kept(f.v))
    /\ ~IsInline(Kept(f.v)[f.i + 1])

\* frame f is at the raise statement
AtRaise(f) ==
    /\ f.fn = "inlinecontent_to_str"
    /\ PyBool(f.v)
    /\ ~(IsStr(f.v) \/ IsInline(f.v) \/ IsList(f.v))

\* the string frame f returns, its calls having returned f.acc
ReturnValue(f) ==
    CASE f.fn = "join_inline_content" -> StrJoin(SEP, f.acc)
      [] f.fn = "inlinecontent_to_str" ->
            IF ~PyBool(f.v) THEN ""
            ELSE IF IsStr(f.v) THEN PyStr(f.v)
            ELSE f.acc[1]
      [] f.fn = "str" ->
            CASE f.v.k = "Inlines" ->
                    IF ~PyBool(f.v.elements) THEN "" ELSE f.acc[1]
              [] f.v.k = "Str" -> Str_str(f.v)
              [] f.v.k = "Code" -> Code_str(f.v)
              [] f.v.k = "CodeTag" -> CodeTag_str(f.v)
              [] f.v.k = "Span" -> Span_text(f.v, f.acc[1])
              [] f.v.k = "Link" -> Link_text(f.v, f.acc[1])
              [] f.v.k = "Strong" -> Strong_text(f.v, f.acc[1])
              [] f.v.k = "Emph" -> Emph_text(f.v, f.acc[1])

\* faulty variant: join_inline_content drops the falsy members from the
\* sequence in place
TreeAfterStep_filter_in_place(tree, f) ==
    IF f.fn = "join_inline_content" /\ tree = f.v THEN L(Kept(f.v))
    ELSE tree

\* the tree after a step of a render: no statement of the module assigns to
\* a field or changes a sequence
TreeAfterStep(tree, f) == tree

\* faulty variant: the result is kept but the frame does not move on
Resume_without_advancing(f, s) == [f EXCEPT !.acc = Append(f.acc, s)]

\* frame f with one more of its calls returned
Resume(f, s) == [f EXCEPT !.i = f.i + 1, !.acc = Append(f.acc, s)]

\* a caller hands the tree to one of the module's functions
Begin(c) ==
    /\ stack[c] = <<>>
    /\ out[c] = NoResult
    /\ \E fn \in EntryPoints(content) :
          stack' = [stack EXCEPT ![c] = <<Frame(fn, content)>>]
    /\ calls' = [calls EXCEPT ![c] = 1]
    /\ UNCHANGED <<content, returned, out>>

\* the top frame calls a function of the module
CallModule(c) ==
    /\ stack[c] # <<>>
    /\ \E g \in Callee(Top(c)) :
          stack' = [stack EXCEPT ![c] = Append(stack[c], g)]
    /\ calls' = [calls EXCEPT ![c] = calls[c] + 1]
    /\ content' = TreeAfterStep(content, Top(c))
    /\ UNCHANGED <<returned, out>>

\* join_inline_content converts a member that is no Inline with str()
BuiltinStr(c) ==
    /\ stack[c] # <<>>
    /\ AtBuiltinStr(Top(c))
    /\ LET f == Top(c)
       IN  stack' = [stack EXCEPT ![c][Len(stack[c])] =
                        Resume(f, PyStr(Kept(f.v)[f.i + 1]))]
    /\ content' = TreeAfterStep(content, Top(c))
    /\ UNCHANGED <<returned, out, calls>>

\* the top frame returns its string to its caller
Return(c) ==
    /\ stack[c] # <<>>
    /\ Callee(Top(c)) = {}
    /\ ~AtBuiltinStr(Top(c))
    /\ ~AtRaise(Top(c))
    /\ LET f == Top(c)
           n == Len(stack[c])
       IN  IF n = 1
           THEN /\ stack' = [stack EXCEPT ![c] = <<>>]
                /\ out' = [out EXCEPT ![c] = Ret(ReturnValue(f))]
           ELSE /\ stack' = [stack EXCEPT ![c] =
                       Append(SubSeq(stack[c], 1, n - 2),
                              Resume(stack[c][n - 1], ReturnValue(f)))]
                /\ out' = out
    /\ content' = TreeAfterStep(content, Top(c))
    /\ UNCHANGED <<returned, calls>>

\* inlinecontent_to_str raises TypeError, which nothing in the module catches
Raise(c) ==
    /\ stack[c] # <<>>
    /\ AtRaise(Top(c))
    /\ stack' = [stack EXCEPT ![c] = <<>>]
    /\ out' = [out EXCEPT ![c] = RaiseTypeError(Top(c).v)]
    /\ content' = TreeAfterStep(content, Top(c))
    /\ UNCHANGED <<returned, calls>>

\* a step of a render in progress
Step(c) == CallModule(c) \/ BuiltinStr(c) \/ Return(c) \/ Raise(c)

RenderNext == \E c \in Callers : Begin(c) \/ Step(c)

\* a thread that can run is eventually scheduled
RenderSpec ==
    RenderInit /\ [][RenderNext]_vars /\ \A c \in Callers : WF_vars(Step(c))

---------------------------------------------------------------------------
(* Properties of the calls run to completion (Spec).                       *)

\* the text an element of a sequence stands for: nothing when it is absent
ElementText(e) == IF e = None THEN "" ELSE PyStr(e)

NonEmpty(s) == s # ""

\* C1: join_inline_content(xs) is the renderings of exactly the elements
\* whose string form is non-empty, in order, separated by one space each; an
\* element that renders to nothing (also a node such as Str() or Inlines([]))
\* contributes neither text nor a separator.
C1_JoinKeepsExactlyNonEmptyRenderings ==
    returned.fn = "join_inline_content" =>
        returned.r =
            Ret(StrJoin(SEP,
                SelectSeq([i \in 1..Len(content.xs) |->
                              ElementText(content.xs[i])], NonEmpty)))

\* the input is absent, a string, an inline node or an ordered sequence
ValidShape(v) == v.k = "NoneType" \/ IsStr(v) \/ IsInline(v) \/ IsList(v)

\* C2 as stated: inlinecontent_to_str raises the type-mismatch error for
\* every input that is neither absent, a string, an inline node nor an
\* ordered sequence, whatever its value, and returns a string for every
\* input that is one of these.
C2_RaisesForEveryOtherShape ==
    returned.fn = "inlinecontent_to_str" =>
        IF ValidShape(content) THEN returned.r.k = "return"
        ELSE returned.r = RaiseTypeError(content)

\* C2 as amended: inlinecontent_to_str raises the type-mismatch error,
\* naming the runtime type, for every truthy input of another shape (a
\* non-empty mapping, a non-zero number); for a falsy one (the empty mapping,
\* zero) it returns the empty string, as it does for an absent input; and it
\* returns a string for every absent, string, node or sequence input.
C2_RaisesForTruthyOtherShape ==
    returned.fn = "inlinecontent_to_str" =>
        IF ValidShape(content) THEN returned.r.k = "return"
        ELSE IF PyBool(content) THEN returned.r = RaiseTypeError(content)
        ELSE returned.r = Ret("")

C2_Witness ==
    /\ returned.fn = "inlinecontent_to_str"
    /\ content = PyDict(1)
    /\ returned.r = [k |-> "TypeError", type |-> "dict"]

\* an optional text field, with the empty string in place of unset
Filled(x) == IF x = None THEN S("") ELSE x

\* the node with every unset text field set to the empty string
UnsetAsEmpty(n) ==
    CASE n.k = "Inlines" ->
            Inlines(IF n.elements = None THEN L(<<>>) ELSE n.elements)
      [] n.k = "Str" -> Str(Filled(n.content))
      [] n.k = "Span" -> Span(Filled(n.content), n.attr)
      [] n.k = "Link" ->
            Link(Filled(n.content), Filled(n.target), Filled(n.title), n.attr)
      [] n.k = "Code" -> Code(Filled(n.text), n.attr)
      [] n.k = "CodeTag" -> CodeTag(Filled(n.text), n.attr)
      [] n.k = "Strong" -> Strong(Filled(n.content))
      [] n.k = "Emph" -> Emph(Filled(n.content))

\* C3: for every node variant and every subset of its optional fields left
\* unset, the rendered text has the empty string in the position of each
\* unset field (it is the text of the node with those fields set to the
\* empty string), never a placeholder such as the literal None; a Link with
\* no target renders an empty target between the parentheses.
C3_UnsetFieldsRenderAsEmpty ==
    returned.fn = "str" => returned.r = Ret(PyStr(UnsetAsEmpty(content)))

\* the text a member of a sequence contributes when sequences render
\* recursively
RecursiveText(e) ==
    IF IsList(e) THEN inlinecontent_to_str(e).s ELSE PyStr(e)

\* the join of a sequence whose members render recursively
RecursiveJoin(l) ==
    StrJoin(SEP, [i \in 1..Len(Kept(l)) |-> RecursiveText(Kept(l)[i])])

\* C4: a member of the sequence given to join_inline_content, or held in
\* Inlines.elements, that is itself a non-empty sequence contributes the
\* space-joined rendering of its own members (what inlinecontent_to_str
\* returns for it), not another textual form of the sequence.
C4_NestedSequenceRendersRecursively ==
    /\ returned.fn = "join_inline_content" =>
            returned.r = Ret(RecursiveJoin(content))
    /\ (returned.fn = "str" /\ content.k = "Inlines"
            /\ PyBool(content.elements)) =>
            returned.r = Ret(RecursiveJoin(content.elements))

\* the text of an optional string field: empty when the field is unset
FieldText(x) == IF x = None THEN "" ELSE x.s

\* C5: a Link renders as '[' content '](' target, then the clause
\* space-quote-title-quote iff a title is present, then ')', then the clause
\* '{' plain attr '}' iff an attr is present.  An unset target stands for the
\* empty text (C3), and an empty title counts as absent.
C5_LinkClauses ==
    (returned.fn = "str" /\ content.k = "Link") =>
        returned.r =
            Ret("[" \o inlinecontent_to_str(content.content).s \o "]("
                \o FieldText(content.target)
                \o (IF FieldText(content.title) # ""
                    THEN " \"" \o content.title.s \o "\"" ELSE "")
                \o ")"
                \o (IF content.attr # None
                    THEN "{" \o Attr_str(content.attr) \o "}" ELSE ""))

\* C6: a CodeTag renders as '<code>' text '</code>' when attr is absent and
\* as '<code', one space, the HTML form of attr, '>' text '</code>' when attr
\* is present: the HTML form, not the plain form, and no space after the tag
\* name without an attr.
C6_CodeTagForm ==
    (returned.fn = "str" /\ content.k = "CodeTag") =>
        returned.r =
            Ret(IF content.attr = None
                THEN "<code>" \o FieldText(content.text) \o "</code>"
                ELSE "<code" \o " " \o Attr_as_html(content.attr) \o ">"
                        \o FieldText(content.text) \o "</code>")

C6_Witness ==
    /\ returned.fn = "str"
    /\ content = CodeTag(S("a"), Attr(S("i"), L(<<S("c")>>)))
    /\ returned.r = Ret("<code id=\"i\" class=\"c\">a</code>")

\* content that is absent, the empty string or the empty sequence
EmptyContent(c) == c \in {None, S(""), L(<<>>)}

\* C7: Span renders '[' content ']{' plain attr '}' and always emits the
\* braces, Strong '**' content '**', Emph '*' content '*', where content is
\* inlinecontent_to_str of the content field; absent, empty-string and
\* empty-sequence content all give the bare skeleton.
C7_DelimitersAroundContent ==
    LET c == inlinecontent_to_str(content.content).s
        attr == IF content.attr = None THEN "" ELSE Attr_str(content.attr)
    IN  /\ (returned.fn = "str" /\ content.k = "Span") =>
            /\ returned.r = Ret("[" \o c \o "]{" \o attr \o "}")
            /\ EmptyContent(content.content) =>
                    returned.r = Ret("[]{" \o attr \o "}")
        /\ (returned.fn = "str" /\ content.k = "Strong") =>
            /\ returned.r = Ret("**" \o c \o "**")
            /\ EmptyContent(content.content) => returned.r = Ret("****")
        /\ (returned.fn = "str" /\ content.k = "Emph") =>
            /\ returned.r = Ret("*" \o c \o "*")
            /\ EmptyContent(content.content) => returned.r = Ret("**")

C7_Witness ==
    /\ returned.fn = "str"
    /\ content = Span(L(<<S("a"), Emph(S("b"))>>), None)
    /\ returned.r = Ret("[a *b*]{}")

\* xs is absent or a sequence of strings and inline nodes only
StringsAndNodes(xs) ==
    \/ xs = None
    \/ /\ IsList(xs)
       /\ \A i \in 1..Len(xs.xs) : IsStr(xs.xs[i]) \/ IsInline(xs.xs[i])

\* C10: for every sequence xs of strings and inline nodes (also the empty
\* one and the absent value), str(Inlines(xs)) equals
\* inlinecontent_to_str(xs), and inlinecontent_to_str(Inlines(xs)) equals
\* both.
C10_InlinesIsTransparent ==
    (content.k = "Inlines" /\ StringsAndNodes(content.elements)
        /\ returned.fn \in {"str", "inlinecontent_to_str"}) =>
        returned.r = inlinecontent_to_str(content.elements)

C10_Witness ==
    /\ returned.fn = "str"
    /\ content = Inlines(L(<<S("a"), Str(None), Emph(S("b"))>>))
    /\ returned.r = Ret("a  *b*")

---------------------------------------------------------------------------
(* Properties of the renders run step by step (RenderSpec).                *)

RECURSIVE Size(_)
\* the number of values in a tree: nodes, sequences, strings, absences
Size(v) ==
    CASE v.k = "list" ->
            LET RECURSIVE Sum(_)
                Sum(i) == IF i = 0 THEN 0 ELSE Size(v.xs[i]) + Sum(i - 1)
            IN  1 + Sum(Len(v.xs))
      [] v.k = "Inlines" -> 1 + Size(v.elements)
      [] v.k \in {"Span", "Link", "Strong", "Emph"} -> 1 + Size(v.content)
      [] OTHER -> 1

\* C8: a render changes no field of the tree or of any other state but the
\* caller's own, so all renders of the tree, one after another or
\* interleaved, return the identical string.
C8_RenderChangesNothing ==
    /\ [][content' = content /\ returned' = returned]_vars
    /\ [](\A c1, c2 \in Callers :
            (out[c1] # NoResult /\ out[c2] # NoResult) => out[c1] = out[c2])

C8_Witness ==
    /\ content = Inlines(L(<<S("a"), Emph(S("b"))>>))
    /\ out[1] = Ret("a *b*")
    /\ stack[2] # <<>>
    /\ Top(2).fn = "join_inline_content"
    /\ Top(2).i = 1

\* C9: every render that has begun ends, with a string or with the
\* type-mismatch error, having made at most two calls per value of the tree.
C9_RenderTerminates ==
    /\ \A c \in Callers : (stack[c] # <<>>) ~> (out[c] # NoResult)
    /\ [](\A c \in Callers : calls[c] <= 2 * Size(content))

C9_Witness ==
    /\ content = Link(Strong(S("a")), S("u"), S("T"), None)
    /\ out[1] = Ret("[**a**](u \"T\")")
    /\ calls[1] = 5

=============================================================================
